---- MODULE Spec2Model ----
(***************************************************************************)
(* Middleware composition engine of nitric/context.py:                     *)
(* _is_handler, _convert_to_middleware and compose_middleware, run as an   *)
(* interpreter over call frames.  Every await of the source is a           *)
(* suspension point and therefore a separate action.                       *)
(* Also the Trigger of nitric/faas/trigger.py with its default response.   *)
(*                                                                         *)
(* Positions are 1-based here: position i of the source is index i+1.      *)
(***************************************************************************)
EXTENDS Integers, Sequences, FiniteSets, TLC

\* Longest middleware sequence handed to compose_middleware.
MaxLen == 2

VARIABLES
    middlewares,  \* the callables handed to compose_middleware, in declaration order
    last,         \* the trailing next the invoker supplies (None when it supplies none)
    active,       \* the invocations of the composed chain
    composition,  \* outcome of the call to compose_middleware
    stack,        \* per invocation: the frames of the calls in progress, innermost last
    ret,          \* per invocation: value or exception travelling to the innermost frame
    log,          \* per invocation: ordered log of the calls to user callables
    outcome,      \* per invocation: what the invoker of the composed chain received
    trigger,      \* the Trigger object the adapter built (None before it has one)
    answers       \* per method of the trigger: what the call of it returned

vars == <<middlewares, last, active, composition, stack, ret, log, outcome, trigger, answers>>

----------------------------------------------------------------------------
\* Values that flow through the chain.

\* Python's None.
None == [k |-> "none", marks |-> <<>>]

\* A falsy value other than None (False, 0, an empty dict).
Falsy == [k |-> "falsy", marks |-> <<>>]

\* A context object; marks lists, in order, the callables that changed it.
Ctx(marks) == [k |-> "ctx", marks |-> marks]

\* The context the adapter builds for one trigger.
Ctx0 == Ctx(<<>>)

\* The context of invocation p.  Every trigger gets a context object of its own:
\* the first is Ctx0, a further one carries the number of its trigger, negated
\* to keep it apart from the ids of the callables.
CtxOf(p) == IF p = 1 THEN Ctx0 ELSE Ctx(<<-p>>)

\* Python truthiness, as tested by `if not output_context` and `if nxt`:
\* None and empty/zero values are falsy, context objects and functions are truthy.
Truthy(v) == v.k \notin {"none", "falsy"}

\* `x is not None`
IsNotNone(v) == v.k # "none"

\* An exception object of the given type, raised by the callable with that id
\* (0 for the interpreter and the composer's own code).
Exc(type, by) == [k |-> "exc", type |-> type, by |-> by]

----------------------------------------------------------------------------
\* User callables.  sig is the parameter list as inspect.signature reports it:
\* one entry per parameter, "empty" when the parameter has no default.

Fn(id, sig, beh) == [k |-> "fn", id |-> id, sig |-> sig, beh |-> beh]

\* The shapes of callables and what their bodies do.
\*   ret        return the context, marked             (no use of nxt)
\*   none       return None                            (no use of nxt)
\*   falsy      return a falsy value that is not None  (no use of nxt)
\*   raise      raise an error                         (no use of nxt)
\*   fwd        mark, then `return await nxt(ctx) if nxt else ctx`
\*   call       mark, then `return await nxt(ctx)` whatever nxt is
\*   post       `out = await nxt(ctx) if nxt else ctx`, then return out, marked
\*   postraise  `await nxt(ctx)` if nxt, then raise an error
\*   drop       `await nxt(ctx)` if nxt, then return None
\*   fwd2       mark, then `return await nxt(ctx, nxt) if nxt else ctx`
\*   pass       `return await nxt(ctx) if nxt else ctx`
\*   mut        write to ctx.res in place, then `return await nxt(ctx) if nxt else ctx`
\* To mark is to hand on a new context built from the one received; a write in
\* place changes the object received, which stays the same object.
HandlerSig == <<"empty">>
MiddlewareSig == <<"empty", "empty">>
ProtocolSig == <<"empty", "default">>
NoRequiredSig == <<"default", "default">>
NoParamSig == <<>>
ThreeSig == <<"empty", "empty", "empty">>

Shapes ==
    ({HandlerSig} \X {"ret", "none", "falsy", "raise"})
    \cup ({MiddlewareSig} \X {"ret", "none", "raise", "fwd", "call", "post",
                              "postraise", "drop", "fwd2", "pass", "mut"})
    \cup ({ProtocolSig} \X {"fwd"})
    \cup ({NoRequiredSig, NoParamSig, ThreeSig} \X {"fwd"})

\* Trailing continuations an invoker may supply: none, or a middleware-shaped callable.
TrailingNexts == {None, Fn(0, ProtocolSig, "ret")}

\* All declaration sequences up to MaxLen; the callable at index i has id i.
Sequences(n) == [1..n -> Shapes]
Declared(shapes) == [i \in DOMAIN shapes |-> Fn(i, shapes[i][1], shapes[i][2])]

\* Number of parameters without a default.
Required(f) == Cardinality({i \in DOMAIN f.sig : f.sig[i] = "empty"})

----------------------------------------------------------------------------
\* The handler-to-middleware adapter.

\* Mutant: every parameter is counted, with or without a default.
is_handler_counts_all(unknown) == Len(unknown.sig) = 1

\* Mutant: a callable without any required parameter is taken for a handler too.
is_handler_at_most_one(unknown) ==
    Cardinality({i \in DOMAIN unknown.sig : unknown.sig[i] = "empty"}) <= 1

\* _is_handler: True when exactly one parameter has no default.
is_handler(unknown) ==
    LET params == unknown.sig
        positional == {i \in DOMAIN params : params[i] = "empty"}
    IN  Cardinality(positional) = 1

\* The closure `middleware` that _convert_to_middleware builds around a handler.
Wrapper(handler) == [k |-> "wrap", handler |-> handler]

\* _convert_to_middleware: anything that is not a handler is returned unchanged.
convert_to_middleware(handler) ==
    IF ~is_handler(handler) THEN handler ELSE Wrapper(handler)

----------------------------------------------------------------------------
\* The composer.

\* reduce_chain: the closure chained_middleware over cur and acc_next.
reduce_chain(acc_next, cur) == [k |-> "step", cur |-> cur, acc_next |-> acc_next]

\* Mutant: the chain is folded over the sequence as declared, not reversed.
reversed_forgotten(seq) == seq

\* reversed(seq)
reversed(seq) == [i \in DOMAIN seq |-> seq[Len(seq) + 1 - i]]

\* functools.reduce(reduce_chain, seq, initial)
RECURSIVE reduce(_, _)
reduce(seq, acc) ==
    IF seq = <<>> THEN acc ELSE reduce(Tail(seq), reduce_chain(acc, Head(seq)))

\* compose_middleware: converts every element, returns the closure `composed`,
\* whose parameters are (ctx, nxt=None).
compose_middleware(ms) ==
    [k |-> "composed", sig |-> ProtocolSig,
     middlewares |-> [i \in DOMAIN ms |-> convert_to_middleware(ms[i])]]

----------------------------------------------------------------------------
\* Calls.  A frame is a call in progress: the callable, its arguments, where it
\* is suspended, and the local `result` of chained_middleware.

Frame(f, ctx, nxt) == [f |-> f, ctx |-> ctx, nxt |-> nxt, pc |-> "start", result |-> None]

\* Whether a call with nargs positional arguments binds to the callable's parameters.
CanBind(f, nargs) ==
    CASE f.k = "fn" -> Required(f) <= nargs /\ nargs <= Len(f.sig)
      [] f.k = "wrap" -> nargs = 2
      [] f.k \in {"step", "composed"} -> nargs \in {1, 2}
      [] OTHER -> FALSE

\* What a piece of code does next: return, raise, or await a call.
Return(v) == [op |-> "return", v |-> v]
Raise(e) == [op |-> "raise", v |-> e]

\* A write in place to the context the frame holds, followed by eff.
Write(eff) == [op |-> "write", then |-> eff]

\* `await f(ctx)` (nargs = 1) or `await f(ctx, nxt)` (nargs = 2) from frame fr.
\* Calling None, or a callable the arguments do not bind to, raises TypeError there.
Await(f, ctx, nargs, nxt, fr) ==
    IF CanBind(f, nargs)
    THEN [op |-> "call", f |-> f, ctx |-> ctx, nargs |-> nargs, nxt |-> nxt, fr |-> fr]
    ELSE Raise(Exc("TypeError", 0))

\* Mutant: when the invoker supplies no next, composed ends the chain with a
\* continuation of its own that returns the context.
composed_start_default_next(fr) ==
    LET last_middleware == IF IsNotNone(fr.nxt) THEN fr.nxt ELSE Fn(0, ProtocolSig, "ret")
        middleware_chain == reduce(reversed(fr.f.middlewares), last_middleware)
    IN  Await(middleware_chain, fr.ctx, 1, None, [fr EXCEPT !.pc = "await_chain"])

\* Mutant: composed with nothing to run returns the context at once.
composed_start_empty_returns(fr) ==
    LET last_middleware == fr.nxt
        middleware_chain == reduce(reversed(fr.f.middlewares), last_middleware)
    IN  IF fr.f.middlewares = <<>> THEN Return(fr.ctx)
        ELSE Await(middleware_chain, fr.ctx, 1, None, [fr EXCEPT !.pc = "await_chain"])

\* Mutant: composed folds the chain onto None and loses the invoker's next.
composed_start_drops_trailing(fr) ==
    LET last_middleware == None
        middleware_chain == reduce(reversed(fr.f.middlewares), last_middleware)
    IN  Await(middleware_chain, fr.ctx, 1, None, [fr EXCEPT !.pc = "await_chain"])

\* Mutant: composed runs the chain on a copy of the context it was given.
composed_start_on_copy(fr) ==
    LET last_middleware == fr.nxt
        middleware_chain == reduce(reversed(fr.f.middlewares), last_middleware)
    IN  Await(middleware_chain, Ctx(Append(fr.ctx.marks, 0)), 1, None,
              [fr EXCEPT !.pc = "await_chain"])

\* composed, lines 345-360: fold the chain, call it with the context alone.
composed_start(fr) ==
    LET last_middleware == fr.nxt
        middleware_chain == reduce(reversed(fr.f.middlewares), last_middleware)
    IN  Await(middleware_chain, fr.ctx, 1, None, [fr EXCEPT !.pc = "await_chain"])

\* Mutant: composed awaits the chain and forgets to return its result.
composed_return_nothing(fr, r) == Return(None)

\* composed, line 360: return what the chain returned.
composed_return(fr, r) == Return(r)

\* Mutant: the step calls its middleware without handing it the following step.
chained_call_cur_without_next(fr, result) ==
    Await(fr.f.cur, result, 2, None,
          [fr EXCEPT !.pc = "await_cur", !.result = result])

\* chained_middleware, line 351: await cur(result, acc_next).
chained_call_cur(fr, result) ==
    Await(fr.f.cur, result, 2, fr.f.acc_next,
          [fr EXCEPT !.pc = "await_cur", !.result = result])

\* Mutant: the step first runs the following step on the context, then its middleware.
chained_start_prepass(fr) ==
    IF IsNotNone(fr.f.acc_next)
    THEN Await(fr.f.acc_next, fr.ctx, 1, None, [fr EXCEPT !.pc = "await_nxt"])
    ELSE chained_call_cur(fr, fr.ctx)

\* chained_middleware, line 349: result is nxt(ctx) when a nxt was passed, else ctx.
chained_start(fr) ==
    IF IsNotNone(fr.nxt)
    THEN Await(fr.nxt, fr.ctx, 1, None, [fr EXCEPT !.pc = "await_nxt"])
    ELSE chained_call_cur(fr, fr.ctx)

\* Mutant: the step falls back to result only when the output is None.
chained_return_none_only(fr, output_context) ==
    IF ~IsNotNone(output_context) THEN Return(fr.result) ELSE Return(output_context)

\* Mutant: the step returns its middleware's output even when it is falsy.
chained_return_unchecked(fr, output_context) == Return(output_context)

\* Mutant: the test of the output is inverted.
chained_return_inverted(fr, output_context) ==
    IF Truthy(output_context) THEN Return(fr.result) ELSE Return(output_context)

\* Mutant: the step always returns result, whatever its middleware returned.
chained_return_always_result(fr, output_context) == Return(fr.result)

\* chained_middleware, lines 352-354.
chained_return(fr, output_context) ==
    IF ~Truthy(output_context) THEN Return(fr.result) ELSE Return(output_context)

\* Mutant: the wrapper hands its nxt on to the handler.
wrapper_passes_next(fr) ==
    Await(fr.f.handler, fr.ctx, 2, fr.nxt, [fr EXCEPT !.pc = "await_handler"])

\* middleware (the wrapper), line 321: await handler(ctx).
wrapper_start(fr) ==
    Await(fr.f.handler, fr.ctx, 1, None, [fr EXCEPT !.pc = "await_handler"])

\* Mutant: the wrapper forwards the context it received, not the handler's result.
wrapper_forwards_input(fr, context) ==
    IF Truthy(fr.nxt)
    THEN Await(fr.nxt, fr.ctx, 1, None, [fr EXCEPT !.pc = "await_nxt"])
    ELSE Return(context)

\* middleware (the wrapper), line 322: await nxt(context) if nxt else context.
wrapper_after_handler(fr, context) ==
    IF Truthy(fr.nxt)
    THEN Await(fr.nxt, context, 1, None, [fr EXCEPT !.pc = "await_nxt"])
    ELSE Return(context)

\* middleware (the wrapper), line 322: return what nxt returned.
wrapper_return(fr, r) == Return(r)

----------------------------------------------------------------------------
\* Bodies of the user callables.

\* Writing to a context; on anything that is not a context object the attribute
\* access fails.
CanMark(ctx) == ctx.k = "ctx"
Mark(ctx, id) == Ctx(Append(ctx.marks, id))

\* First part of a user callable's body, up to its return, raise or await.
fn_start(fr) ==
    LET id == fr.f.id
        beh == fr.f.beh
        wait == [fr EXCEPT !.pc = "await_nxt"]
    IN  CASE beh = "none" -> Return(None)
          [] beh = "falsy" -> Return(Falsy)
          [] beh = "raise" -> Raise(Exc("UserError", id))
          [] beh \in {"postraise", "drop"} ->
                IF Truthy(fr.nxt) THEN Await(fr.nxt, fr.ctx, 1, None, wait)
                ELSE IF beh = "drop" THEN Return(None)
                ELSE Raise(Exc("UserError", id))
          [] beh = "post" ->
                IF Truthy(fr.nxt) THEN Await(fr.nxt, fr.ctx, 1, None, wait)
                ELSE IF CanMark(fr.ctx) THEN Return(Mark(fr.ctx, id))
                ELSE Raise(Exc("AttributeError", id))
          [] beh = "pass" ->
                IF Truthy(fr.nxt) THEN Await(fr.nxt, fr.ctx, 1, None, wait)
                ELSE Return(fr.ctx)
          [] beh = "mut" ->
                IF ~CanMark(fr.ctx) THEN Raise(Exc("AttributeError", id))
                ELSE IF Truthy(fr.nxt) THEN Write(Await(fr.nxt, fr.ctx, 1, None, wait))
                ELSE Write(Return(fr.ctx))
          [] beh \in {"ret", "fwd", "call", "fwd2"} ->
                IF ~CanMark(fr.ctx) THEN Raise(Exc("AttributeError", id))
                ELSE IF beh = "call" THEN Await(fr.nxt, Mark(fr.ctx, id), 1, None, wait)
                ELSE IF beh = "ret" \/ ~Truthy(fr.nxt) THEN Return(Mark(fr.ctx, id))
                ELSE IF beh = "fwd" THEN Await(fr.nxt, Mark(fr.ctx, id), 1, None, wait)
                ELSE Await(fr.nxt, Mark(fr.ctx, id), 2, fr.nxt, wait)

\* Rest of a user callable's body, once its nxt has returned r.
fn_after_nxt(fr, r) ==
    LET id == fr.f.id
        beh == fr.f.beh
    IN  CASE beh = "postraise" -> Raise(Exc("UserError", id))
          [] beh = "drop" -> Return(None)
          [] beh = "post" ->
                IF CanMark(r) THEN Return(Mark(r, id)) ELSE Raise(Exc("AttributeError", id))
          [] OTHER -> Return(r)

----------------------------------------------------------------------------
\* The interpreter.

Idle == [st |-> "idle", v |-> None]
Val(v) == [st |-> "val", v |-> v]
Thrown(e) == [st |-> "exc", v |-> e]

\* The methods of a Trigger and of its TriggerContext that the adapter calls.
TriggerMethods == {"is_http", "as_http", "is_topic", "as_topic", "default_response", "get_body"}

Top(p) == stack[p][Len(stack[p])]
Below(p) == SubSeq(stack[p], 1, Len(stack[p]) - 1)

\* Declaration index of the user callable a closure runs (0: the trailing next
\* and the composed closure itself).
PosOf(f) ==
    LET user == IF f.k = "step" THEN (IF f.cur.k = "wrap" THEN f.cur.handler ELSE f.cur)
                ELSE IF f.k = "wrap" THEN f.handler
                ELSE f
    IN  IF user.k = "fn" THEN user.id ELSE 0

\* Log entries, one per call, return and raise of every callable:
\*   call    f was called at stack depth d with arg (and nxt when nargs = 2);
\*           callables are logged by kind and declaration index
\*   return  the call of f at depth d returned val; arg is the context it was
\*           working on (for a step: `result`, what it passed to its middleware)
\*   raise   the code of f at depth d raised val
\*   unwind  the exception val, raised further in, left the call of f at depth d
\*   write   the code of f at depth d changed, in place, the context object arg
Ref(f) == [k |-> f.k, id |-> PosOf(f)]
Event(ev, f, d, arg, nargs, nxt, val) ==
    [ev |-> ev, k |-> f.k, id |-> PosOf(f), d |-> d, arg |-> arg, nargs |-> nargs,
     nxt |-> Ref(nxt), val |-> val]

\* The context a frame is working on.
Held(fr) == IF fr.f.k = "step" /\ fr.pc = "await_cur" THEN fr.result ELSE fr.ctx

\* What one invocation owns: its frames, the value travelling, its log.
Local(p) == [stack |-> stack[p], ret |-> ret[p], log |-> log[p]]

\* The innermost frame of an invocation in local state s does eff.
ApplyPlain(s, eff) ==
    LET d == Len(s.stack)
        me == s.stack[d]
        below == SubSeq(s.stack, 1, d - 1)
    IN  CASE eff.op = "call" ->
                [stack |-> Append(below, eff.fr) \o <<Frame(eff.f, eff.ctx, eff.nxt)>>,
                 ret |-> Idle,
                 log |-> Append(s.log, Event("call", eff.f, d + 1, eff.ctx, eff.nargs,
                                             eff.nxt, None))]
          [] eff.op = "return" ->
                [stack |-> below,
                 ret |-> Val(eff.v),
                 log |-> Append(s.log, Event("return", me.f, d, Held(me), 0, None, eff.v))]
          [] eff.op = "raise" ->
                [stack |-> below,
                 ret |-> Thrown(eff.v),
                 log |-> Append(s.log, Event("raise", me.f, d, Held(me), 0, None, eff.v))]

\* The same, for code that first writes to its context in place.
ApplyTo(s, eff) ==
    LET d == Len(s.stack)
        me == s.stack[d]
    IN  IF eff.op = "write"
        THEN ApplyPlain([s EXCEPT !.log = Append(@, Event("write", me.f, d, me.ctx, 0,
                                                          None, None))],
                        eff.then)
        ELSE ApplyPlain(s, eff)

\* Invocation p takes local state s; nothing of another invocation changes.
Becomes(p, s) ==
    /\ stack' = [stack EXCEPT ![p] = s.stack]
    /\ ret' = [ret EXCEPT ![p] = s.ret]
    /\ log' = [log EXCEPT ![p] = s.log]

\* The innermost frame of invocation p does eff.
Apply(p, eff) == Becomes(p, ApplyTo(Local(p), eff))

\* Invocation p's innermost frame runs callable kind k and stands at pc.
At(p, k, pc) ==
    /\ stack[p] # <<>>
    /\ Top(p).f.k = k
    /\ Top(p).pc = pc
    /\ ret[p].st = (IF pc = "start" THEN "idle" ELSE "val")

\* The registration code calls compose_middleware(*middlewares).
Compose ==
    /\ composition.st = "idle"
    /\ composition' = Val(compose_middleware(middlewares))
    /\ UNCHANGED <<middlewares, last, active, stack, ret, log, outcome, trigger, answers>>

\* Local state of invocation p as the adapter's call of chain leaves it.
Invoked(chain, p) ==
    [stack |-> <<Frame(chain, CtxOf(p), last)>>,
     ret |-> Idle,
     log |-> <<Event("call", chain, 1, CtxOf(p), IF IsNotNone(last) THEN 2 ELSE 1,
                     last, None)>>]

\* The adapter awaits composed(ctx) or composed(ctx, last) for one trigger.
Invoke(p) ==
    /\ composition.st = "val"
    /\ outcome[p].st = "idle"
    /\ stack' = [stack EXCEPT ![p] = Invoked(composition.v, p).stack]
    /\ log' = [log EXCEPT ![p] = Invoked(composition.v, p).log]
    /\ outcome' = [outcome EXCEPT ![p] = [st |-> "running", v |-> None]]
    /\ UNCHANGED <<middlewares, last, active, composition, ret, trigger, answers>>

Rest == UNCHANGED <<middlewares, last, active, composition, outcome, trigger, answers>>

\* Mutant: composed turns the captured list round in place (list.reverse())
\* instead of iterating over reversed(middlewares).
ComposedStartReversesInPlace(p) ==
    /\ At(p, "composed", "start")
    /\ Apply(p, composed_start(Top(p)))
    /\ composition' = Val([composition.v EXCEPT !.middlewares = reversed(@)])
    /\ UNCHANGED <<middlewares, last, active, outcome, trigger, answers>>

ComposedStart(p) == At(p, "composed", "start") /\ Apply(p, composed_start(Top(p))) /\ Rest
ComposedReturn(p) ==
    At(p, "composed", "await_chain") /\ Apply(p, composed_return(Top(p), ret[p].v)) /\ Rest

StepStart(p) == At(p, "step", "start") /\ Apply(p, chained_start(Top(p))) /\ Rest
StepAfterNxt(p) ==
    At(p, "step", "await_nxt") /\ Apply(p, chained_call_cur(Top(p), ret[p].v)) /\ Rest
StepReturn(p) ==
    At(p, "step", "await_cur") /\ Apply(p, chained_return(Top(p), ret[p].v)) /\ Rest

WrapperStart(p) == At(p, "wrap", "start") /\ Apply(p, wrapper_start(Top(p))) /\ Rest
WrapperAfterHandler(p) ==
    At(p, "wrap", "await_handler") /\ Apply(p, wrapper_after_handler(Top(p), ret[p].v)) /\ Rest
WrapperReturn(p) ==
    At(p, "wrap", "await_nxt") /\ Apply(p, wrapper_return(Top(p), ret[p].v)) /\ Rest

FnStart(p) == At(p, "fn", "start") /\ Apply(p, fn_start(Top(p))) /\ Rest
FnAfterNxt(p) == At(p, "fn", "await_nxt") /\ Apply(p, fn_after_nxt(Top(p), ret[p].v)) /\ Rest

\* The exception travelling in local state s leaves the innermost frame.
Unwound(s) ==
    LET d == Len(s.stack)
    IN  [stack |-> SubSeq(s.stack, 1, d - 1),
         ret |-> s.ret,
         log |-> Append(s.log, Event("unwind", s.stack[d].f, d, Held(s.stack[d]), 0, None,
                                     s.ret.v))]

\* Mutant: a step catches what its middleware raised and returns its result.
UnwindCaughtByStep(p) ==
    /\ stack[p] # <<>>
    /\ ret[p].st = "exc"
    /\ stack' = [stack EXCEPT ![p] = Below(p)]
    /\ ret' = [ret EXCEPT ![p] = IF Top(p).f.k = "step" THEN Val(Held(Top(p))) ELSE @]
    /\ log' = [log EXCEPT ![p] =
                    Append(@, Event(IF Top(p).f.k = "step" THEN "return" ELSE "unwind",
                                    Top(p).f, Len(stack[p]), Held(Top(p)), 0, None,
                                    IF Top(p).f.k = "step" THEN Held(Top(p)) ELSE ret[p].v))]
    /\ UNCHANGED <<middlewares, last, active, composition, outcome, trigger, answers>>

\* An exception reaches a suspended frame.  No frame of the composer has a
\* try/except around its await, so the exception leaves the frame as it came.
Unwind(p) ==
    /\ stack[p] # <<>>
    /\ ret[p].st = "exc"
    /\ Becomes(p, Unwound(Local(p)))
    /\ UNCHANGED <<middlewares, last, active, composition, outcome, trigger, answers>>

\* The adapter's await of the composed chain completes.
Finish(p) ==
    /\ stack[p] = <<>>
    /\ outcome[p].st = "running"
    /\ ret[p].st # "idle"
    /\ outcome' = [outcome EXCEPT ![p] =
                      [st |-> IF ret[p].st = "val" THEN "returned" ELSE "raised", v |-> ret[p].v]]
    /\ ret' = [ret EXCEPT ![p] = Idle]
    /\ UNCHANGED <<middlewares, last, active, composition, stack, log, trigger, answers>>

Init ==
    /\ \E n \in 0..MaxLen : \E shapes \in Sequences(n) : middlewares = Declared(shapes)
    /\ last \in TrailingNexts
    /\ active = {1}
    /\ composition = Idle
    /\ stack = [p \in active |-> <<>>]
    /\ ret = [p \in active |-> Idle]
    /\ log = [p \in active |-> <<>>]
    /\ outcome = [p \in active |-> Idle]
    /\ trigger = None
    /\ answers = [m \in TriggerMethods |-> Idle]

Next ==
    \/ Compose
    \/ \E p \in active : Invoke(p)
    \/ \E p \in active : ComposedStart(p)
    \/ \E p \in active : ComposedReturn(p)
    \/ \E p \in active : StepStart(p)
    \/ \E p \in active : StepAfterNxt(p)
    \/ \E p \in active : StepReturn(p)
    \/ \E p \in active : WrapperStart(p)
    \/ \E p \in active : WrapperAfterHandler(p)
    \/ \E p \in active : WrapperReturn(p)
    \/ \E p \in active : FnStart(p)
    \/ \E p \in active : FnAfterNxt(p)
    \/ \E p \in active : Unwind(p)
    \/ \E p \in active : Finish(p)

Spec == Init /\ [][Next]_vars

----------------------------------------------------------------------------
\* One invocation run on its own, from call to completion, with nothing else
\* in progress: the code of the innermost frame runs until no frame is left.

\* What the innermost frame of local state s does next.
CodeOf(s) ==
    LET fr == s.stack[Len(s.stack)]
        r == s.ret.v
    IN  CASE fr.f.k = "composed" /\ fr.pc = "start" -> composed_start(fr)
          [] fr.f.k = "composed" /\ fr.pc = "await_chain" -> composed_return(fr, r)
          [] fr.f.k = "step" /\ fr.pc = "start" -> chained_start(fr)
          [] fr.f.k = "step" /\ fr.pc = "await_nxt" -> chained_call_cur(fr, r)
          [] fr.f.k = "step" /\ fr.pc = "await_cur" -> chained_return(fr, r)
          [] fr.f.k = "wrap" /\ fr.pc = "start" -> wrapper_start(fr)
          [] fr.f.k = "wrap" /\ fr.pc = "await_handler" -> wrapper_after_handler(fr, r)
          [] fr.f.k = "wrap" /\ fr.pc = "await_nxt" -> wrapper_return(fr, r)
          [] fr.f.k = "fn" /\ fr.pc = "start" -> fn_start(fr)
          [] fr.f.k = "fn" /\ fr.pc = "await_nxt" -> fn_after_nxt(fr, r)

RECURSIVE RunAlone(_)
RunAlone(s) ==
    IF s.stack = <<>> THEN s
    ELSE IF s.ret.st = "exc" THEN RunAlone(Unwound(s))
    ELSE RunAlone(ApplyTo(s, CodeOf(s)))

\* Invocation p of the chain composed from the declared sequence, run alone.
Alone(p) == RunAlone(Invoked(compose_middleware(middlewares), p))

----------------------------------------------------------------------------
\* Several triggers at once: the adapter invokes the one composed chain for each,
\* and the event loop interleaves the invocations at their awaits.

Invocations == {1, 2}

\* The callables of the concurrent runs: handlers and middleware that forward,
\* work after their next, drop its result, fail, or re-enter the chain.
ConcShapes ==
    ({HandlerSig} \X {"ret", "none"})
    \cup ({MiddlewareSig} \X {"fwd", "post", "drop", "raise", "fwd2"})

ConcInit ==
    /\ \E n \in 0..MaxLen : \E shapes \in [1..n -> ConcShapes] : middlewares = Declared(shapes)
    /\ last \in TrailingNexts
    /\ active = Invocations
    /\ composition = Idle
    /\ stack = [p \in active |-> <<>>]
    /\ ret = [p \in active |-> Idle]
    /\ log = [p \in active |-> <<>>]
    /\ outcome = [p \in active |-> Idle]
    /\ trigger = None
    /\ answers = [m \in TriggerMethods |-> Idle]

ConcSpec == ConcInit /\ [][Next]_vars

----------------------------------------------------------------------------
\* Nesting: a composed chain handed to compose_middleware as an element of
\* another chain, compose_middleware(compose_middleware(a, b), c).

\* The callables of the nested runs.
NestShapes ==
    ({HandlerSig} \X {"ret", "none"})
    \cup ({MiddlewareSig} \X {"ret", "none", "fwd", "post", "raise", "fwd2"})

\* a, b and c have ids 1, 2 and 3.
NestInit ==
    /\ \E shapes \in [1..3 -> NestShapes] :
          middlewares = <<compose_middleware(SubSeq(Declared(shapes), 1, 2)),
                          Declared(shapes)[3]>>
    /\ last \in TrailingNexts
    /\ active = {1}
    /\ composition = Idle
    /\ stack = [p \in active |-> <<>>]
    /\ ret = [p \in active |-> Idle]
    /\ log = [p \in active |-> <<>>]
    /\ outcome = [p \in active |-> Idle]
    /\ trigger = None
    /\ answers = [m \in TriggerMethods |-> Idle]

NestSpec == NestInit /\ [][Next]_vars

\* The callable a converted element was made from.
Unconverted(m) == IF m.k = "wrap" THEN m.handler ELSE m

\* The declared sequence with a composed chain at its head replaced by the
\* callables that chain was composed from: [a, b, c] for [composed(a, b), c].
Flattened ==
    IF middlewares # <<>> /\ Head(middlewares).k = "composed"
    THEN [i \in DOMAIN Head(middlewares).middlewares |->
              Unconverted(Head(middlewares).middlewares[i])] \o Tail(middlewares)
    ELSE middlewares

\* Invocation p of compose_middleware(a, b, c), run alone.
Flat(p) == RunAlone(Invoked(compose_middleware(Flattened), p))

----------------------------------------------------------------------------
\* nitric/faas/trigger.py: the Trigger the adapter builds for a request, and the
\* default response made from it.  Objects are records; k is the class.

isinstance(obj, class) == obj.k = class

HttpTriggerContext(method) == [k |-> "HttpTriggerContext", method |-> method]
TopicTriggerContext(topic) == [k |-> "TopicTriggerContext", topic |-> topic]
TriggerContext(context) == [k |-> "TriggerContext", context |-> context]
Trigger(context, data) == [k |-> "Trigger", context |-> context, data |-> data]

\* The response classes, as trigger.py constructs them.
HttpResponseContext == [k |-> "HttpResponseContext"]
TopicResponseContext == [k |-> "TopicResponseContext"]
ResponseContext(context) == [k |-> "ResponseContext", context |-> context]
Response(data, context) == [k |-> "Response", data |-> data, context |-> context]

\* A Python bool or bytes value, as an object.
Bool(b) == [k |-> "bool", v |-> b]
Bytes(b) == [k |-> "bytes", v |-> b]

\* TriggerContext.is_http, as_http, is_topic, as_topic.
is_http(self) == isinstance(self.context, "HttpTriggerContext")
as_http(self) == IF ~is_http(self) THEN None ELSE self.context
is_topic(self) == isinstance(self.context, "TriggerContext")
as_topic(self) == IF ~is_topic(self) THEN None ELSE self.context

\* Trigger.get_body
get_body(self) == self.data

\* Trigger.default_response
default_response(self) ==
    LET response_ctx ==
            IF is_http(self.context) THEN ResponseContext(HttpResponseContext)
            ELSE IF is_topic(self.context) THEN ResponseContext(TopicResponseContext)
            ELSE None
    IN  Response(None, response_ctx)

\* The triggers of the runs: HTTP and topic triggers, and a trigger whose
\* context wraps neither.
HttpMethods == {"GET", "POST"}
Topics == {"orders", "events"}
Bodies == {Bytes(""), Bytes("{}")}
TriggerKinds ==
    {HttpTriggerContext(m) : m \in HttpMethods}
    \cup {TopicTriggerContext(t) : t \in Topics}
    \cup {None}
Triggers == {Trigger(TriggerContext(c), d) : c \in TriggerKinds, d \in Bodies}

\* The adapter, or a handler, calls one method and keeps what it returned.
Answer(m, v) ==
    /\ trigger # None
    /\ answers[m] = Idle
    /\ answers' = [answers EXCEPT ![m] = Val(v)]
    /\ UNCHANGED <<middlewares, last, active, composition, stack, ret, log, outcome, trigger>>

IsHttp == Answer("is_http", Bool(is_http(trigger.context)))
AsHttp == Answer("as_http", as_http(trigger.context))
IsTopic == Answer("is_topic", Bool(is_topic(trigger.context)))
AsTopic == Answer("as_topic", as_topic(trigger.context))
GetBody == Answer("get_body", get_body(trigger))
DefaultResponse == Answer("default_response", default_response(trigger))

TriggerInit ==
    /\ trigger \in Triggers
    /\ answers = [m \in TriggerMethods |-> Idle]
    /\ middlewares = <<>>
    /\ last = None
    /\ active = {}
    /\ composition = Idle
    /\ stack = [p \in active |-> <<>>]
    /\ ret = [p \in active |-> Idle]
    /\ log = [p \in active |-> <<>>]
    /\ outcome = [p \in active |-> Idle]

TriggerNext ==
    \/ IsHttp
    \/ AsHttp
    \/ IsTopic
    \/ AsTopic
    \/ GetBody
    \/ DefaultResponse

TriggerSpec == TriggerInit /\ [][TriggerNext]_vars

----------------------------------------------------------------------------
\* Reading the log.

Done(p) == outcome[p].st \in {"returned", "raised"}
Returned(p, v) == outcome[p] = [st |-> "returned", v |-> v]

N == Len(middlewares)

\* The calls of the declared user callables, in the order they happened.
IsUserCall(e) == e.ev = "call" /\ e.k = "fn" /\ e.id > 0
UserCalls(p) == SelectSeq(log[p], IsUserCall)
CallIds(p) == [j \in DOMAIN UserCalls(p) |-> UserCalls(p)[j].id]

\* The callable declared at i is called at some point, and j is not called before that.
CalledBefore(p, i, j) ==
    \E m \in DOMAIN CallIds(p) :
        /\ CallIds(p)[m] = i
        /\ \A n \in 1..m : CallIds(p)[n] # j

\* Log indices of the returns of the callable declared at i.
ReturnsOf(p, i) == {j \in DOMAIN log[p] : log[p][j].ev = "return" /\ log[p][j].k = "fn"
                                            /\ log[p][j].id = i}

\* The middleware at index i of the composed chain (after conversion).
Mw(i) == composition.v.middlewares[i]

\* Log entry j is a call of the middleware at index i.
IsMwCall(p, i, j) ==
    /\ log[p][j].ev = "call"
    /\ log[p][j].id = i
    /\ log[p][j].k = Mw(i).k

\* Log indices of the calls of the middleware at index i.
MwCalls(p, i) == {j \in DOMAIN log[p] : IsMwCall(p, i, j)}

\* The log entries that end the call logged at j: the first is its own end.
Ends(p, j) == {e \in DOMAIN log[p] : e > j /\ log[p][e].d = log[p][j].d
                                   /\ log[p][e].ev \in {"return", "raise", "unwind"}}
Ended(p, j) == Ends(p, j) # {}
EndOf(p, j) == CHOOSE e \in Ends(p, j) : \A x \in Ends(p, j) : e <= x

\* Between its call at j and its end at e the callee called its next (a step,
\* or the trailing next).
CalledNext(p, j, e) ==
    \E m \in (j + 1)..(e - 1) :
        /\ log[p][m].ev = "call"
        /\ log[p][m].d = log[p][j].d + 1
        /\ (log[p][m].k = "step" \/ (log[p][m].k = "fn" /\ log[p][m].id = 0))

\* Log indices at which the body of a user callable raised.
UserRaises(p) == {j \in DOMAIN log[p] : log[p][j].ev = "raise" /\ log[p][j].k = "fn"}

\* The log entry of the call that the entry at e (a return, raise or unwind) ends.
CallOf(p, e) ==
    CHOOSE c \in 1..(e - 1) :
        /\ log[p][c].ev = "call" /\ log[p][c].d = log[p][e].d
        /\ \A x \in (c + 1)..(e - 1) : ~(log[p][x].ev = "call" /\ log[p][x].d = log[p][e].d)

\* The call logged at c is the first call of its callee in this invocation.
FirstCall(p, c) ==
    \A x \in 1..(c - 1) :
        ~(log[p][x].ev = "call" /\ log[p][x].k = log[p][c].k /\ log[p][x].id = log[p][c].id)

\* A middleware with a later index was called.
LaterCalled(p, i) == \E m \in (i + 1)..N : MwCalls(p, m) # {}

\* The call of the middleware at index i logged at j returned a falsy value
\* without calling its next.
ShortCircuits(p, i, j) ==
    /\ IsMwCall(p, i, j)
    /\ Ended(p, j)
    /\ log[p][EndOf(p, j)].ev = "return"
    /\ ~Truthy(log[p][EndOf(p, j)].val)
    /\ ~CalledNext(p, j, EndOf(p, j))

\* The middleware calls its next once, with a context alone, and returns what
\* that returned: a wrapped handler, or a middleware ending in `return await nxt(ctx)`.
PassesOn(f) == is_handler(f) \/ f.beh \in {"fwd", "call"}

\* Every declared callable is a two-parameter middleware that marks and forwards.
AllForward == \A i \in 1..N : middlewares[i] = Fn(i, MiddlewareSig, "fwd")

\* Every declared callable is a terminal handler that returns a context.
AllHandlers == \A i \in 1..N : middlewares[i] = Fn(i, HandlerSig, "ret")

----------------------------------------------------------------------------
\* C1 as stated: in the chain composed from [A, B] of forwarding middleware,
\* invoked with no trailing next, B (declared last) is entered before A.
C1_LastDeclaredFirst ==
    \A p \in active :
        (N = 2 /\ AllForward /\ last = None /\ Done(p)) => CalledBefore(p, 2, 1)

\* C1 amended: in a chain of forwarding middleware invoked with no trailing next,
\* the middleware run in declaration order, each exactly once: a step invokes its
\* own middleware first and the following step runs only when that middleware
\* calls its next, so A's tag is logged before B's.
C1_DeclarationOrder ==
    \A p \in active :
        (N >= 2 /\ AllForward /\ last = None /\ Done(p)) =>
            /\ CallIds(p) = [i \in 1..N |-> i]
            /\ Returned(p, Ctx([i \in 1..N |-> i]))

C1_Witness ==
    \E p \in active :
        /\ N = 2 /\ AllForward /\ last = None /\ Done(p)
        /\ CallIds(p) = <<1, 2>>

\* C2: a chain of n >= 1 terminal handlers that each return a context, invoked
\* with no trailing next, calls each handler exactly once in declaration order
\* with one argument, hands each the context the previous one returned (the
\* first gets the invoker's context) and returns what the last one returned.
C2_HandlersInOrder ==
    \A p \in active :
        (N >= 1 /\ AllHandlers /\ last = None /\ Done(p)) =>
            /\ CallIds(p) = [i \in 1..N |-> i]
            /\ \A i \in 1..N :
                /\ UserCalls(p)[i].nargs = 1
                /\ Cardinality(ReturnsOf(p, i)) = 1
                /\ UserCalls(p)[i].arg =
                      IF i = 1 THEN Ctx0
                      ELSE log[p][CHOOSE j \in ReturnsOf(p, i - 1) : TRUE].val
            /\ Returned(p, log[p][CHOOSE j \in ReturnsOf(p, N) : TRUE].val)

C2_Witness ==
    \E p \in active :
        /\ N = 2 /\ AllHandlers /\ last = None /\ Done(p)
        /\ CallIds(p) = <<1, 2>>
        /\ UserCalls(p)[2].arg = Ctx(<<1>>)
        /\ Returned(p, Ctx(<<1, 2>>))

\* C3 as stated: when the middleware at position i returns a falsy value
\* without calling its next, no later middleware is invoked and the composed
\* call returns the context that was passed to the middleware at position i.
C3_ComposedReturnsInput ==
    \A p \in active : \A i \in 1..N : \A j \in DOMAIN log[p] :
        (Done(p) /\ ShortCircuits(p, i, j)) =>
            /\ ~LaterCalled(p, i)
            /\ Returned(p, log[p][j].arg)

\* C3 amended: when the middleware at position i returns a falsy value without
\* calling its next, no later middleware is invoked in that invocation and the
\* step of position i returns the context that was passed to that middleware;
\* the composed call returns that context when it is non-falsy and every
\* middleware declared before position i calls its next once, with a context
\* alone, and returns that call's result unchanged.
C3_ShortCircuit ==
    \A p \in active : \A i \in 1..N : \A j \in DOMAIN log[p] :
        (Done(p) /\ ShortCircuits(p, i, j)) =>
            /\ ~LaterCalled(p, i)
            /\ LET s == log[p][EndOf(p, j) + 1]
               IN  EndOf(p, j) < Len(log[p]) =>
                       /\ s.ev = "return" /\ s.k = "step" /\ s.id = i
                       /\ s.val = log[p][j].arg
            /\ (/\ Truthy(log[p][j].arg)
                /\ \A m \in 1..(i - 1) : PassesOn(middlewares[m]))
               => Returned(p, log[p][j].arg)

C3_Witness ==
    \E p \in active : \E j \in DOMAIN log[p] :
        /\ N = 2 /\ Done(p)
        /\ middlewares[1] = Fn(1, MiddlewareSig, "none")
        /\ middlewares[2] = Fn(2, HandlerSig, "ret")
        /\ ShortCircuits(p, 1, j)
        /\ ~LaterCalled(p, 1)
        /\ Returned(p, Ctx0)

\* C4: when the body of a middleware or handler raises, the error leaves every
\* enclosing call of the chain unchanged, nothing else runs, and the invocation
\* of the composed chain ends by raising that same error.
C4_ErrorPropagates ==
    \A p \in active : \A j \in UserRaises(p) :
        Done(p) =>
            /\ outcome[p] = [st |-> "raised", v |-> log[p][j].val]
            /\ \A m \in (j + 1)..Len(log[p]) :
                /\ log[p][m].ev = "unwind"
                /\ log[p][m].val = log[p][j].val
                /\ log[p][m].d = log[p][j].d - (m - j)
            /\ log[p][Len(log[p])].d = 1

C4_Witness ==
    \E p \in active :
        /\ N = 2 /\ Done(p)
        /\ middlewares[1] = Fn(1, MiddlewareSig, "fwd")
        /\ middlewares[2] = Fn(2, HandlerSig, "raise")
        /\ UserRaises(p) # {}
        /\ outcome[p] = [st |-> "raised", v |-> Exc("UserError", 2)]

\* C5 as stated: when the middleware at position i raises, no middleware
\* declared after i has run at any point of the invocation.
C5_NoLaterEverRuns ==
    \A p \in active : \A j \in UserRaises(p) :
        (Done(p) /\ log[p][j].id >= 1) => ~LaterCalled(p, log[p][j].id)

\* C5 amended: when the middleware at position i raises, no middleware is
\* invoked after the failure; and when it raises in its first call before
\* awaiting its next, no middleware declared after i runs at any point of the
\* invocation (one that raises after awaiting its next has let them run).
C5_NothingRunsAfterFailure ==
    \A p \in active : \A j \in UserRaises(p) :
        (Done(p) /\ log[p][j].id >= 1) =>
            /\ \A m \in (j + 1)..Len(log[p]) : log[p][m].ev # "call"
            /\ (FirstCall(p, CallOf(p, j)) /\ ~CalledNext(p, CallOf(p, j), j))
               => ~LaterCalled(p, log[p][j].id)

C5_Witness ==
    \E p \in active : \E j \in UserRaises(p) :
        /\ N = 2 /\ Done(p)
        /\ middlewares[1] = Fn(1, MiddlewareSig, "raise")
        /\ middlewares[2] = Fn(2, HandlerSig, "ret")
        /\ log[p][j].id = 1
        /\ CallIds(p) = <<1>>

\* C6 as stated: the chain composed from one terminal handler h, invoked with
\* ctx and no trailing next, returns exactly the value h returned, whatever it is.
C6_ExactlyHandlerValue ==
    \A p \in active : \A j \in ReturnsOf(p, 1) :
        (N = 1 /\ is_handler(middlewares[1]) /\ last = None /\ Done(p)) =>
            Returned(p, log[p][j].val)

\* C6 amended: the chain composed from one terminal handler h, invoked with ctx
\* and no trailing next, returns the value h returned when that value is
\* non-falsy, and ctx itself when h returned None or another falsy value.
C6_HandlerValueOrContext ==
    \A p \in active : \A j \in ReturnsOf(p, 1) :
        (N = 1 /\ is_handler(middlewares[1]) /\ last = None /\ Done(p)) =>
            Returned(p, IF Truthy(log[p][j].val) THEN log[p][j].val ELSE Ctx0)

C6_Witness ==
    \E p \in active : \E j \in ReturnsOf(p, 1) :
        /\ N = 1 /\ middlewares[1] = Fn(1, HandlerSig, "none") /\ last = None /\ Done(p)
        /\ log[p][j].val = None
        /\ Returned(p, Ctx0)

\* The call of a wrapper logged at j, in a finished invocation: h is the entry
\* that ends its handler's call.
WrapperCalls(p) == {j \in DOMAIN log[p] : log[p][j].ev = "call" /\ log[p][j].k = "wrap"}
HandlerEnd(p, j) == EndOf(p, j + 1)

\* Calls made directly by the call logged at j to the callable ref.
DirectCalls(p, j, ref) ==
    {m \in (j + 1)..(EndOf(p, j) - 1) :
        /\ log[p][m].ev = "call" /\ log[p][m].d = log[p][j].d + 1
        /\ log[p][m].k = ref.k /\ log[p][m].id = ref.id}

\* C7: the wrapper built around a handler h, invoked with (ctx, next), calls h
\* exactly once, with ctx alone; once h returned v it calls next, when present,
\* exactly once with v alone (whatever v is) and returns next's result, and
\* when next is absent it returns v.
C7_WrapperContract ==
    \A p \in active : \A j \in WrapperCalls(p) :
        Done(p) =>
            LET w == log[p][j]
                h == HandlerEnd(p, j)
                handler == [k |-> "fn", id |-> w.id]
            IN  /\ DirectCalls(p, j, handler) = {j + 1}
                /\ log[p][j + 1].arg = w.arg
                /\ log[p][j + 1].nargs = 1
                /\ log[p][h].ev = "return" =>
                      IF w.nxt.k # "none"
                      THEN /\ DirectCalls(p, j, w.nxt) = {h + 1}
                           /\ log[p][h + 1].arg = log[p][h].val
                           /\ log[p][h + 1].nargs = 1
                           /\ log[p][EndOf(p, h + 1)].ev = "return" =>
                                 /\ EndOf(p, j) = EndOf(p, h + 1) + 1
                                 /\ log[p][EndOf(p, j)].ev = "return"
                                 /\ log[p][EndOf(p, j)].val = log[p][EndOf(p, h + 1)].val
                      ELSE /\ EndOf(p, j) = h + 1
                           /\ log[p][h + 1].ev = "return"
                           /\ log[p][h + 1].val = log[p][h].val

C7_Witness ==
    \E p \in active : \E j \in WrapperCalls(p) :
        /\ Done(p)
        /\ middlewares[1] = Fn(1, HandlerSig, "none")
        /\ log[p][j].id = 1
        /\ log[p][j].nxt = [k |-> "step", id |-> 2]
        /\ log[p][HandlerEnd(p, j)].val = None
        /\ log[p][HandlerEnd(p, j) + 1].ev = "call"
        /\ log[p][HandlerEnd(p, j) + 1].k = "step"
        /\ log[p][HandlerEnd(p, j) + 1].arg = None

C9_ProtocolMiddlewareUnchanged ==
    /\ composition.st = "val" =>
          \A i \in 1..N : middlewares[i].sig = ProtocolSig => Mw(i).k = "fn"
    /\ \A p \in active : \A j \in DOMAIN log[p] :
          (IsUserCall(log[p][j]) /\ log[p][j].id < N
           /\ middlewares[log[p][j].id].sig = ProtocolSig)
          => (log[p][j].nargs = 2 /\ log[p][j].nxt = [k |-> "step", id |-> log[p][j].id + 1])

\* Whether the step can call the callable as it does: cur(result, acc_next).
BadArity(f) == Required(f) = 0 \/ Required(f) > 2

\* Log indices of the calls of the step of index i.
StepCalls(p, i) == {j \in DOMAIN log[p] : log[p][j].ev = "call" /\ log[p][j].k = "step"
                                            /\ log[p][j].id = i}

\* C10 as stated: composing a sequence that holds a callable with no required
\* parameter, or with more than two, fails at composition time.
C10_RejectedAtComposition ==
    (composition.st # "idle" /\ \E i \in 1..N : BadArity(middlewares[i]))
        => composition.st = "exc"

\* C10 amended: compose_middleware never rejects such a sequence: it returns
\* normally and keeps a callable with no required parameter, or with more than
\* two, unchanged as a middleware, never wrapped as a handler.  The error comes
\* at invocation: when the step of that position runs and the callable cannot
\* take the two positional arguments (ctx, next), its body never runs and the
\* invocation raises TypeError; when it can take them it is called with both.
C10_AcceptedAtComposition ==
    /\ composition.st # "idle" => composition.st = "val"
    /\ composition.st = "val" =>
          \A i \in 1..N : BadArity(middlewares[i]) => Mw(i) = middlewares[i]
    /\ \A p \in active : \A i \in 1..N :
          (Done(p) /\ BadArity(middlewares[i])) =>
              IF CanBind(middlewares[i], 2)
              THEN \A j \in StepCalls(p, i) :
                      log[p][j].nargs = 1 =>
                          (IsUserCall(log[p][j + 1]) /\ log[p][j + 1].id = i
                           /\ log[p][j + 1].nargs = 2)
              ELSE /\ MwCalls(p, i) = {}
                   /\ StepCalls(p, i) # {} =>
                          outcome[p] = [st |-> "raised", v |-> Exc("TypeError", 0)]

C10_Witness ==
    \E p \in active :
        /\ N = 2 /\ Done(p)
        /\ middlewares[1] = Fn(1, MiddlewareSig, "fwd")
        /\ middlewares[2].sig = ThreeSig
        /\ composition.st = "val"
        /\ StepCalls(p, 2) # {}
        /\ MwCalls(p, 2) = {}
        /\ outcome[p] = [st |-> "raised", v |-> Exc("TypeError", 0)]

----------------------------------------------------------------------------
\* C11: when the chain is invoked with no trailing next and the last-declared
\* callable, a two-parameter middleware, calls its next without testing it, that
\* call of None raises TypeError inside the middleware: the call of the
\* middleware ends in that raise, never in a return, nothing is called after it,
\* and the invocation fails with that TypeError instead of returning a context.
C11_CallOfAbsentNextFails ==
    \A p \in active :
        (N >= 1 /\ last = None /\ middlewares[N] = Fn(N, MiddlewareSig, "call") /\ Done(p)) =>
            \A j \in MwCalls(p, N) :
                CanMark(log[p][j].arg) =>
                    /\ log[p][j + 1] = Event("raise", middlewares[N], log[p][j].d,
                                             log[p][j].arg, 0, None, Exc("TypeError", 0))
                    /\ \A x \in (j + 2)..Len(log[p]) : log[p][x].ev = "unwind"
                    /\ outcome[p] = [st |-> "raised", v |-> Exc("TypeError", 0)]

C11_Witness ==
    \E p \in active :
        /\ N = 2 /\ last = None /\ Done(p)
        /\ middlewares[1] = Fn(1, MiddlewareSig, "fwd")
        /\ middlewares[2] = Fn(2, MiddlewareSig, "call")
        /\ CallIds(p) = <<1, 2>>
        /\ outcome[p] = [st |-> "raised", v |-> Exc("TypeError", 0)]

----------------------------------------------------------------------------
\* C12: with several invocations of one composed chain in progress, interleaved
\* at their awaits, the sequence the composer captured stays what
\* compose_middleware built from the declared callables, and every completed
\* invocation has made exactly the calls, in the same order with the same
\* arguments and results, and received the same outcome as when it runs alone
\* on its own context.
C12_ConcurrentAsAlone ==
    /\ composition.st = "val" => composition.v = compose_middleware(middlewares)
    /\ \A p \in active :
          Done(p) =>
              /\ log[p] = Alone(p).log
              /\ outcome[p].v = Alone(p).ret.v
              /\ (outcome[p].st = "returned") = (Alone(p).ret.st = "val")

\* Both invocations are complete, the second was called while the first was
\* suspended inside a middleware, and it completed before the first.
C12_Witness ==
    /\ active = {1, 2}
    /\ N = 2 /\ middlewares[1] = Fn(1, MiddlewareSig, "post")
    /\ middlewares[2] = Fn(2, HandlerSig, "ret")
    /\ Done(2) /\ ~Done(1) /\ Len(log[1]) > 3 /\ stack[1] # <<>>
    /\ Returned(2, Ctx(<<-2, 2, 1>>))

----------------------------------------------------------------------------
\* The writes made in place to the context object the adapter supplied: what the
\* adapter sees of the invocation in its own context.
Visible(p) == {j \in DOMAIN log[p] : log[p][j].ev = "write" /\ log[p][j].arg = CtxOf(p)}

\* The callables declared before i hand the context they received on to their
\* next, unchanged or changed in place.
HandedOnBefore(i) ==
    \A m \in 1..(i - 1) : middlewares[m].sig = MiddlewareSig /\ middlewares[m].beh \in {"pass", "mut"}

\* C13 as stated: when the invocation fails because a middleware raised, the
\* context the adapter supplied shows no response change made before the failure.
C13_NothingVisibleAfterFailure ==
    \A p \in active :
        (Done(p) /\ outcome[p].st = "raised" /\ UserRaises(p) # {}) => Visible(p) = {}

\* C13 amended: the composer neither copies the context nor restores it.  The
\* first middleware receives the very object the adapter supplied, and so does
\* each following one as long as those before it hand it on; when the invocation
\* then fails because a later middleware raises, every change such a middleware
\* made to the response in place is still in the adapter's context, and the
\* adapter receives the error and no context.
C13_WritesSurviveFailure ==
    \A p \in active :
        (Done(p) /\ outcome[p].st = "raised" /\ UserRaises(p) # {}) =>
            /\ outcome[p].v.k = "exc"
            /\ \A i \in 1..N :
                  (middlewares[i] = Fn(i, MiddlewareSig, "mut") /\ HandedOnBefore(i)) =>
                      \E j \in Visible(p) :
                          /\ log[p][j].id = i
                          /\ \A r \in UserRaises(p) : j < r

C13_Witness ==
    \E p \in active :
        /\ N = 2 /\ Done(p)
        /\ middlewares[1] = Fn(1, MiddlewareSig, "mut")
        /\ middlewares[2] = Fn(2, MiddlewareSig, "raise")
        /\ outcome[p] = [st |-> "raised", v |-> Exc("UserError", 2)]
        /\ \E j \in Visible(p) : log[p][j].id = 1

----------------------------------------------------------------------------
\* The calls of its next (a step, or the trailing next) that the callee of the
\* call logged at j made itself.
NextCalls(p, j) ==
    {m \in (j + 1)..(EndOf(p, j) - 1) :
        /\ log[p][m].ev = "call"
        /\ log[p][m].d = log[p][j].d + 1
        /\ (log[p][m].k = "step" \/ (log[p][m].k = "fn" /\ log[p][m].id = 0))}

\* Every middleware that was handed a next called it exactly once, with the
\* context alone.
CallsNextOnce(p) ==
    \A i \in 1..N : \A j \in MwCalls(p, i) :
        log[p][j].nxt.k # "none" =>
            /\ Cardinality(NextCalls(p, j)) = 1
            /\ \A m \in NextCalls(p, j) : log[p][m].nargs = 1

\* Every declared callable is a handler or can be called as cur(ctx, next).
AllCallable == \A i \in 1..N : CanBind(convert_to_middleware(middlewares[i]), 2)

\* The counter of a context: the callable with id i adds i.
RECURSIVE SumOf(_)
SumOf(seq) == IF seq = <<>> THEN 0 ELSE Head(seq) + SumOf(Tail(seq))
Counter(ctx) == SumOf(ctx.marks)

----------------------------------------------------------------------------
\* C15: the chain composed from one middleware that returns the context it
\* received when it has no next, invoked with no trailing next, calls that
\* middleware once with the invoker's context and no next, and returns that
\* context.
C15_SingleIdentity ==
    \A p \in active :
        (Done(p) /\ N = 1 /\ middlewares[1] = Fn(1, MiddlewareSig, "pass") /\ last = None) =>
            /\ \A j \in MwCalls(p, 1) :
                  /\ log[p][j].arg = CtxOf(p)
                  /\ log[p][j].nxt = Ref(None)
                  /\ log[p][j + 1] = Event("return", middlewares[1], log[p][j].d,
                                           CtxOf(p), 0, None, CtxOf(p))
            /\ Cardinality(MwCalls(p, 1)) = 1
            /\ Returned(p, CtxOf(p))

C15_Witness ==
    \E p \in active :
        /\ N = 1 /\ middlewares[1] = Fn(1, MiddlewareSig, "pass") /\ last = None
        /\ Done(p)
        /\ CallIds(p) = <<1>>
        /\ Returned(p, Ctx0)

----------------------------------------------------------------------------
\* What a call of method m of the trigger returned.
Answered(m) == answers[m].st = "val"
AnswerOf(m) == answers[m].v

\* The context the trigger's TriggerContext wraps.
Wrapped == trigger.context.context

\* C16: default_response() returns a Response whose context matches the kind
\* of the trigger: a ResponseContext around an HttpResponseContext for a wrapped
\* HttpTriggerContext; a ResponseContext around a TopicResponseContext for a
\* wrapped TopicTriggerContext, for which is_topic() answers true and as_topic()
\* returns the wrapped topic context; and no response context for neither kind.
C16_DefaultResponseMatchesKind ==
    trigger # None =>
        /\ Answered("default_response") =>
              /\ AnswerOf("default_response").k = "Response"
              /\ AnswerOf("default_response").context =
                    (CASE isinstance(Wrapped, "HttpTriggerContext") ->
                              ResponseContext(HttpResponseContext)
                       [] isinstance(Wrapped, "TopicTriggerContext") ->
                              ResponseContext(TopicResponseContext)
                       [] OTHER -> None)
        /\ (Answered("is_topic") /\ isinstance(Wrapped, "TopicTriggerContext")) =>
              AnswerOf("is_topic") = Bool(TRUE)
        /\ (Answered("as_topic") /\ isinstance(Wrapped, "TopicTriggerContext")) =>
              AnswerOf("as_topic") = Wrapped

----------------------------------------------------------------------------
\* Log indices of the returns of steps.
StepReturns(p) == {e \in DOMAIN log[p] : log[p][e].ev = "return" /\ log[p][e].k = "step"}

\* For the step return logged at e: what its middleware returned just before,
\* and the context the step had passed to that middleware.
OutputAt(p, e) == log[p][e - 1].val
PassedAt(p, e) == log[p][CallOf(p, e - 1)].arg

\* C17 as stated: every step returns its middleware's output when that is
\* non-falsy and otherwise the context it passed to the middleware, and what a
\* step returns is never a falsy or absent middleware output.
C17_StepNeverReturnsFalsyOutput ==
    \A p \in active : \A e \in StepReturns(p) :
        /\ log[p][e].val = (IF Truthy(OutputAt(p, e)) THEN OutputAt(p, e) ELSE PassedAt(p, e))
        /\ ~Truthy(OutputAt(p, e)) => log[p][e].val # OutputAt(p, e)

\* C17 amended: every step returns its middleware's output when that is
\* non-falsy and otherwise, unchanged, the context it passed to the
\* middleware; a step returns a falsy value only when the context it passed was
\* itself falsy, as when the handler before it returned None and its wrapper
\* forwarded that.
C17_StepOutputOrPassedContext ==
    \A p \in active : \A e \in StepReturns(p) :
        /\ log[p][e - 1].ev = "return" /\ log[p][e - 1].d = log[p][e].d + 1
        /\ log[p][e].val = (IF Truthy(OutputAt(p, e)) THEN OutputAt(p, e) ELSE PassedAt(p, e))
        /\ ~Truthy(log[p][e].val) => (~Truthy(PassedAt(p, e)) /\ ~Truthy(OutputAt(p, e)))

\* A step returned the truthy context it had passed on, after a falsy output;
\* an earlier step of the same invocation returned the None it had been handed.
C17_Witness ==
    \E p \in active :
        /\ N = 2 /\ Done(p) /\ last = None
        /\ middlewares[1] = Fn(1, HandlerSig, "none")
        /\ middlewares[2] = Fn(2, MiddlewareSig, "none")
        /\ \E e \in StepReturns(p) :
              /\ log[p][e].id = 2 /\ PassedAt(p, e) = None /\ log[p][e].val = None
        /\ \E e \in StepReturns(p) :
              /\ log[p][e].id = 1 /\ OutputAt(p, e) = None /\ log[p][e].val = Ctx0
        /\ Returned(p, Ctx0)

----------------------------------------------------------------------------
\* Log indices of the calls of the trailing next.
TrailingCalls(p) ==
    {m \in DOMAIN log[p] : log[p][m].ev = "call" /\ log[p][m].k = "fn" /\ log[p][m].id = 0}

\* The log entry of the call whose callee made the call logged at m.
CallerOf(p, m) ==
    CHOOSE c \in 1..(m - 1) :
        /\ log[p][c].ev = "call" /\ log[p][c].d = log[p][m].d - 1
        /\ \A x \in (c + 1)..(m - 1) : ~(log[p][x].ev = "call" /\ log[p][x].d = log[p][m].d - 1)

\* C18: in every invocation of a chain of n >= 1 middleware, composed calls the
\* step of the first position with the original context alone; the middleware at
\* index i is called with two arguments and receives as its next the step of
\* index i + 1 when i < n, the trailing next when i = n and one was supplied, and
\* None when i = n and none was supplied; the trailing next is called only by
\* the last-declared middleware, and then every middleware before it has been
\* invoked and has called its next.
C18_NextOfEachPosition ==
    \A p \in active :
        (Done(p) /\ N >= 1) =>
            /\ log[p][2].ev = "call" /\ log[p][2].k = "step" /\ log[p][2].id = 1
            /\ log[p][2].arg = CtxOf(p) /\ log[p][2].nargs = 1
            /\ \A i \in 1..N : \A j \in MwCalls(p, i) :
                  /\ log[p][j].nargs = 2
                  /\ log[p][j].nxt = (IF i < N THEN [k |-> "step", id |-> i + 1] ELSE Ref(last))
            /\ \A m \in TrailingCalls(p) :
                  /\ IsMwCall(p, N, CallerOf(p, m))
                  /\ \A i \in 1..(N - 1) :
                        \E j \in MwCalls(p, i) : CalledNext(p, j, EndOf(p, j))

C18_Witness ==
    \E p \in active :
        /\ N = 2 /\ AllForward /\ Done(p) /\ last = Fn(0, ProtocolSig, "ret")
        /\ log[p][2].k = "step" /\ log[p][2].id = 1 /\ log[p][2].arg = Ctx0
        /\ \E j \in MwCalls(p, 1) : log[p][j].nxt = [k |-> "step", id |-> 2]
        /\ \E j \in MwCalls(p, 2) : log[p][j].nxt = [k |-> "fn", id |-> 0]
        /\ \E m \in TrailingCalls(p) : IsMwCall(p, 2, CallerOf(p, m))
        /\ Returned(p, Ctx(<<1, 2, 0>>))

----------------------------------------------------------------------------
\* The calls of the declared user callables in a log: who was called, with what.
UserCallsIn(l) ==
    LET calls == SelectSeq(l, IsUserCall)
    IN  [j \in DOMAIN calls |-> [id |-> calls[j].id, arg |-> calls[j].arg]]

\* C19 as stated: compose_middleware(compose_middleware(a, b), c) makes the same
\* calls of a, b and c, in the same order with the same contexts, and gives the
\* invoker the same result as compose_middleware(a, b, c).
C19_NestingAssociative ==
    \A p \in active :
        (Done(p) /\ N = 2 /\ middlewares[1].k = "composed") =>
            /\ UserCallsIn(log[p]) = UserCallsIn(Flat(p).log)
            /\ outcome[p].v = Flat(p).ret.v
            /\ (outcome[p].st = "returned") = (Flat(p).ret.st = "val")

----------------------------------------------------------------------------
\* What the middleware of the first position returned to its step: composed
\* calls that step (second log entry), the step calls the middleware (third).
FirstOutput(p) == log[p][EndOf(p, 3)].val

\* C20: for every non-empty sequence, whatever its callables return and with or
\* without a trailing next, an invocation on a (non-falsy) context that returns
\* normally returns a non-falsy value: the output of the middleware of the
\* first position when that is non-falsy, and the original context otherwise.
C20_ReturnsNonFalsy ==
    \A p \in active :
        (Done(p) /\ N >= 1 /\ outcome[p].st = "returned") =>
            /\ Truthy(CtxOf(p))
            /\ IsMwCall(p, 1, 3)
            /\ log[p][EndOf(p, 3)].ev = "return"
            /\ Truthy(outcome[p].v)
            /\ outcome[p].v = (IF Truthy(FirstOutput(p)) THEN FirstOutput(p) ELSE CtxOf(p))

\* The first middleware ran the rest of the chain and returned None; the
\* invoker received the original context.
C20_Witness ==
    \E p \in active :
        /\ N = 2 /\ Done(p)
        /\ middlewares[1] = Fn(1, MiddlewareSig, "drop")
        /\ middlewares[2] = Fn(2, HandlerSig, "ret")
        /\ CallIds(p) = <<1, 2>>
        /\ FirstOutput(p) = None
        /\ Returned(p, Ctx0)

----------------------------------------------------------------------------
\* C21: the chain composed from the empty sequence, invoked with a trailing
\* next, calls that next exactly once, with the invoker's context alone, and
\* returns what it returned; invoked with no trailing next it calls nothing
\* and the invocation fails with TypeError.
C21_EmptyChain ==
    \A p \in active :
        (Done(p) /\ N = 0) =>
            IF last = None
            THEN /\ outcome[p] = [st |-> "raised", v |-> Exc("TypeError", 0)]
                 /\ \A j \in 2..Len(log[p]) : log[p][j].ev # "call"
            ELSE /\ Cardinality(TrailingCalls(p)) = 1
                 /\ \A m \in TrailingCalls(p) :
                       /\ log[p][m].arg = CtxOf(p)
                       /\ log[p][m].nargs = 1
                       /\ log[p][CallerOf(p, m)].k = "composed"
                       /\ log[p][EndOf(p, m)].ev = "return"
                       /\ Returned(p, log[p][EndOf(p, m)].val)

\* The empty chain with a trailing next: the next ran once on the invoker's
\* context and its result came back.
C21_Witness ==
    \E p \in active :
        /\ N = 0 /\ Done(p)
        /\ last = Fn(0, ProtocolSig, "ret")
        /\ Cardinality(TrailingCalls(p)) = 1
        /\ Returned(p, Ctx(<<0>>))

====
